---- MODULE Spec2Model ----
(***************************************************************************)
(* Model of the iroh-chatbot repository: the canned reply generators, the  *)
(* mock chat handler POST, the chat backend described by the API           *)
(* documentation, the Vue App variants built on handleSubmit, the App      *)
(* built on useCompletion, and customFetch.  Each component has its own    *)
(* variables and its own specifications; a specification leaves the other  *)
(* components parked.                                                      *)
(***************************************************************************)
EXTENDS Integers, Sequences, FiniteSets, TLC

VARIABLES
    \* canned reply generators (getBotResponse, POST's responses)
    genName, genMessage, genRandom, genResult,
    \* mock chat handler POST
    postPc, postBody, postSent, postRejected, postServed,
    \* chat backend (/api/chat, /api/v1/chat/completions)
    beEnv, bePc, beReq, beRouted, beSource, beFailure, beText, beSent, beEvents,
    beResponse,
    \* the App with the conversation sidebar (handleSubmit variant)
    input, messages, conversations, currentConversationId, status, error,
    selectedModel, searchQuery, newChatDialogOpen,
    \* the suspended handleSubmit calls, the next fresh Date.now(), and the
    \* handler that ran last
    pending, clock, lastOp,
    \* customFetch
    cfPc, cfEnv, cfInput, cfInit, cfFault, cfCalls, cfResult,
    \* the App built on useCompletion (handleCursorSubmit): its refs, the state
    \* useCompletion owns, the calls of complete in flight, the next fresh
    \* Date.now(), and the handler that ran last
    ucInput, enhancedMessages, ucConversations, ucCurrentConversationId,
    isLoading, ucError, completion, ucCalls, ucClock, ucLastOp

genVars == <<genName, genMessage, genRandom, genResult>>
postVars == <<postPc, postBody, postSent, postRejected, postServed>>
beVars ==
    <<beEnv, bePc, beReq, beRouted, beSource, beFailure, beText, beSent, beEvents,
      beResponse>>
appVars ==
    <<input, messages, conversations, currentConversationId, status, error,
      selectedModel, searchQuery, newChatDialogOpen, pending, clock, lastOp>>
cfVars == <<cfPc, cfEnv, cfInput, cfInit, cfFault, cfCalls, cfResult>>
ucVars ==
    <<ucInput, enhancedMessages, ucConversations, ucCurrentConversationId,
      isLoading, ucError, completion, ucCalls, ucClock, ucLastOp>>
vars == <<genVars, postVars, beVars, appVars, cfVars, ucVars>>

\* What an action of one component leaves alone.
exceptGen == <<postVars, beVars, appVars, cfVars, ucVars>>
exceptPost == <<genVars, beVars, appVars, cfVars, ucVars>>
exceptBe == <<genVars, postVars, appVars, cfVars, ucVars>>
exceptApp == <<genVars, postVars, beVars, cfVars, ucVars>>
exceptCf == <<genVars, postVars, beVars, appVars, ucVars>>
exceptUc == <<genVars, postVars, beVars, appVars, cfVars>>

Range(s) == {s[i] : i \in 1..Len(s)}

(***************************************************************************)
(* Bounds of the model.                                                    *)
(***************************************************************************)
\* Math.random() is drawn from {0/RandomGrain, ..., (RandomGrain-1)/RandomGrain}
RandomGrain == 20
\* number of requests the mock handler serves in one behaviour
MaxRequests == 2

RandomDraws == 0..(RandomGrain - 1)

(***************************************************************************)
(* The canned sentences.                                                   *)
(***************************************************************************)
responses ==
    << "That's interesting! Tell me more about that.",
       "I understand. How can I help you with that?",
       "Thanks for sharing! What else would you like to discuss?",
       "I see your point. Let me think about that for a moment.",
       "That's a great question! Here's what I think about it.",
       "I appreciate you sharing that with me.",
       "That makes sense. What are your thoughts on this?",
       "Interesting perspective! Have you considered other angles?",
       "I'd love to help you explore that idea further.",
       "That's a fascinating topic! Let me share what I know about it." >>

\* The list of the single-pane App: the first eight sentences only.
responsesSimple ==
    << "That's interesting! Tell me more about that.",
       "I understand. How can I help you with that?",
       "Thanks for sharing! What else would you like to discuss?",
       "I see your point. Let me think about that for a moment.",
       "That's a great question! Here's what I think about it.",
       "I appreciate you sharing that with me.",
       "That makes sense. What are your thoughts on this?",
       "Interesting perspective! Have you considered other angles?" >>

\* The generators: getBotResponse of the three sidebar Apps and of the
\* single-pane App, and the selection inside POST.
Generators == {"AppSidebar", "AppSidebarPlain", "AppCompletion", "AppSimple", "POST"}

ResponsesOf(g) == IF g = "AppSimple" THEN responsesSimple ELSE responses

\* Math.floor(Math.random() * length): r stands for the draw r / RandomGrain.
\* The result is the 0-based JavaScript index.
\* (a slip: Math.ceil in place of Math.floor)
RandomIndexCeil(r, length) == (r * length + RandomGrain - 1) \div RandomGrain
RandomIndex(r, length) == (r * length) \div RandomGrain

\* responses[index] of JavaScript: undefined outside 0..length-1.
ArrayAt(list, index) ==
    IF index >= 0 /\ index < Len(list) THEN list[index + 1] ELSE "undefined"

\* getBotResponse(_userMessage) of generator g with the draw r.
getBotResponse(g, userMessage, r) ==
    ArrayAt(ResponsesOf(g), RandomIndex(r, Len(ResponsesOf(g))))

\* The user messages the generators are tried on.
GenMessages == {"", "hello", "That's interesting! Tell me more about that."}

GenInit ==
    /\ genName \in Generators
    /\ genMessage \in GenMessages
    /\ genRandom \in RandomDraws
    /\ genResult = "pending"

GenParked ==
    /\ genName = "POST"
    /\ genMessage = ""
    /\ genRandom = 0
    /\ genResult = "pending"

\* One call of the generator on the drawn inputs.
GenCall ==
    /\ genResult = "pending"
    /\ genResult' = getBotResponse(genName, genMessage, genRandom)
    /\ UNCHANGED <<genName, genMessage, genRandom>>
    /\ UNCHANGED exceptGen

\* The next call: new inputs.
GenAgain ==
    /\ genResult # "pending"
    /\ genName' \in Generators
    /\ genMessage' \in GenMessages
    /\ genRandom' \in RandomDraws
    /\ genResult' = "pending"
    /\ UNCHANGED exceptGen

GenNext == GenCall \/ GenAgain

(***************************************************************************)
(* The mock chat handler POST.                                             *)
(***************************************************************************)
\* What request.json() finds in the body.  "malformed" is a body that is not
\* JSON; "null" and "primitive" are JSON values that are not objects; an
\* "object" carries the value of its messages property.
MessagesValues ==
    { [t |-> "absent"], [t |-> "null"],
      [t |-> "boolean", truthy |-> FALSE], [t |-> "boolean", truthy |-> TRUE],
      [t |-> "number", truthy |-> FALSE], [t |-> "number", truthy |-> TRUE],
      [t |-> "string", truthy |-> FALSE], [t |-> "string", truthy |-> TRUE],
      [t |-> "object", truthy |-> TRUE],
      [t |-> "array", truthy |-> TRUE, items |-> <<>>],
      [t |-> "array", truthy |-> TRUE, items |-> <<"hello">>],
      [t |-> "array", truthy |-> TRUE, items |-> <<"hello", 42>>] }

PostBodies ==
    { [kind |-> "malformed"], [kind |-> "null"], [kind |-> "primitive"] }
    \cup { [kind |-> "object", messages |-> m] : m \in MessagesValues }

NoBody == [kind |-> "none"]

\* !messages
Falsy(m) == m.t \in {"absent", "null"} \/ ~m.truthy

\* Array.isArray(messages)
IsArray(m) == m.t = "array"

\* const { messages } = await request.json(): the promise rejects on a body
\* that is not JSON, and destructuring null throws a TypeError.
JsonThrows(body) == body.kind \in {"malformed", "null"}

\* The messages binding after destructuring.
MessagesOf(body) ==
    IF body.kind = "object" THEN body.messages ELSE [t |-> "absent"]

TextResponse(text, code) ==
    [status |-> code, contentType |-> "text/plain", body |-> text,
     role |-> "none", content |-> "none"]

\* new Response(JSON.stringify({role, content}), {headers}): status defaults to 200.
JsonResponse(botResponse) ==
    [status |-> 200, contentType |-> "application/json", body |-> "json",
     role |-> "assistant", content |-> botResponse]

\* The handler up to its await of the timer: what the try block and its catch
\* make of the body.  "wait" continues to the timer.
\* (a slip: the handler without its try/catch)
PostValidateNoCatch(body) ==
    IF JsonThrows(body) THEN [outcome |-> "reject"]
    ELSE IF Falsy(MessagesOf(body)) \/ ~IsArray(MessagesOf(body))
         THEN [outcome |-> "respond", response |-> TextResponse("Invalid messages format", 400)]
         ELSE [outcome |-> "wait"]
\* (a slip: an empty array refused, messages.length tested for truth)
PostValidateNonEmpty(body) ==
    IF JsonThrows(body)
    THEN [outcome |-> "respond", response |-> TextResponse("Internal Server Error", 500)]
    ELSE IF Falsy(MessagesOf(body)) \/ ~IsArray(MessagesOf(body))
            \/ MessagesOf(body).items = <<>>
         THEN [outcome |-> "respond", response |-> TextResponse("Invalid messages format", 400)]
         ELSE [outcome |-> "wait"]
PostValidate(body) ==
    IF JsonThrows(body)
    THEN [outcome |-> "respond", response |-> TextResponse("Internal Server Error", 500)]
    ELSE IF Falsy(MessagesOf(body)) \/ ~IsArray(MessagesOf(body))
         THEN [outcome |-> "respond", response |-> TextResponse("Invalid messages format", 400)]
         ELSE [outcome |-> "wait"]

PostInit ==
    /\ postPc = "idle"
    /\ postBody = NoBody
    /\ postSent = <<>>
    /\ postRejected = FALSE
    /\ postServed = 0

\* A request arrives and POST is called on it.
PostCall ==
    /\ postPc \in {"idle", "done"}
    /\ postServed < MaxRequests
    /\ postBody' \in PostBodies
    /\ postPc' = "json"
    /\ postSent' = <<>>
    /\ postRejected' = FALSE
    /\ postServed' = postServed + 1
    /\ UNCHANGED exceptPost

\* request.json() settles; the body is destructured and validated.
PostJson ==
    /\ postPc = "json"
    /\ LET v == PostValidate(postBody)
       IN  /\ postPc' = IF v.outcome = "wait" THEN "timer" ELSE "done"
           /\ postSent' = IF v.outcome = "respond" THEN Append(postSent, v.response)
                          ELSE postSent
           /\ postRejected' = (v.outcome = "reject")
    /\ UNCHANGED <<postBody, postServed>>
    /\ UNCHANGED exceptPost

\* The 1000 ms timer fires; a canned sentence is drawn and returned.
PostTimer ==
    /\ postPc = "timer"
    /\ \E r \in RandomDraws :
          postSent' = Append(postSent, JsonResponse(getBotResponse("POST", "", r)))
    /\ postPc' = "done"
    /\ UNCHANGED <<postBody, postRejected, postServed>>
    /\ UNCHANGED exceptPost

PostNext == PostCall \/ PostJson \/ PostTimer

(***************************************************************************)
(* The chat backend.  Its Rust sources are not part of the files modelled   *)
(* here; this component follows the API documentation.                      *)
(***************************************************************************)
\* The canned sentences as the words a stream sends them in.
responsesWords ==
    <<
       << "That's ", "interesting! ", "Tell ", "me ", "more ", "about ", "that." >>,
       << "I ", "understand. ", "How ", "can ", "I ", "help ", "you ", "with ", "that?" >>,
       << "Thanks ", "for ", "sharing! ", "What ", "else ", "would ", "you ", "like ", "to ", "discuss?" >>,
       << "I ", "see ", "your ", "point. ", "Let ", "me ", "think ", "about ", "that ", "for ", "a ", "moment." >>,
       << "That's ", "a ", "great ", "question! ", "Here's ", "what ", "I ", "think ", "about ", "it." >>,
       << "I ", "appreciate ", "you ", "sharing ", "that ", "with ", "me." >>,
       << "That ", "makes ", "sense. ", "What ", "are ", "your ", "thoughts ", "on ", "this?" >>,
       << "Interesting ", "perspective! ", "Have ", "you ", "considered ", "other ", "angles?" >>,
       << "I'd ", "love ", "to ", "help ", "you ", "explore ", "that ", "idea ", "further." >>,
       << "That's ", "a ", "fascinating ", "topic! ", "Let ", "me ", "share ", "what ", "I ", "know ", "about ", "it." >> >>

\* The text of a sequence of words.
RECURSIVE Join(_)
Join(ws) == IF ws = <<>> THEN "" ELSE Head(ws) \o Join(Tail(ws))

\* String.startsWith
StartsWith(str, prefix) ==
    Len(str) >= Len(prefix) /\ SubSeq(str, 1, Len(prefix)) = prefix

\* The model names requests carry; NoModel is a request without the field.
NoModel == "(none)"
ModelNames ==
    { "gpt-4", "gemini-1.5-flash", "unknown-model", "gpt", "gemini",
      "my-gemini-pro", NoModel }

\* OPENAI_DEFAULT_MODEL
DefaultModel == "gpt-3.5-turbo"

ModelOrDefault(model) == IF model = NoModel THEN DefaultModel ELSE model

\* Provider routing: by the prefix of the model name, OpenAI by default.
\* (a slip: the provider name looked for anywhere in the model name)
RECURSIVE Contains(_, _)
Contains(str, part) ==
    IF Len(str) < Len(part) THEN FALSE
    ELSE StartsWith(str, part) \/ Contains(Tail(str), part)
DetectProviderByContains(model) ==
    IF Contains(model, "gemini-") THEN "gemini" ELSE "openai"
DetectProvider(model) ==
    IF StartsWith(model, "gpt-") THEN "openai"
    ELSE IF StartsWith(model, "gemini-") THEN "gemini"
    ELSE "openai"

\* The ways an upstream call fails.
UpstreamFailures == {"invalid key", "outage", "timeout"}

\* The texts an upstream model answers with, as the pieces it streams.
UpstreamTexts == { <<>>, <<"Hello">>, <<"Hello! ", "I'm ", "GPT.">> }

\* words of one text-delta event
MaxChunk == 2

NoRequest == [valid |-> FALSE, model |-> NoModel, stream |-> FALSE]
NoResponse == [status |-> 0]

\* The fallback response: one of the canned sentences.
\* (a slip: the upstream error passed on to the client)
FallbackSurfacesError(r) == <<"upstream error">>
Fallback(r) == responsesWords[RandomIndex(r, Len(responsesWords)) + 1]

BeInit ==
    /\ beEnv \in [{"openai", "gemini"} -> BOOLEAN]
    /\ bePc = "idle"
    /\ beReq = NoRequest
    /\ beRouted = {}
    /\ beSource = "none"
    /\ beFailure = "none"
    /\ beText = <<>>
    /\ beSent = 0
    /\ beEvents = <<>>
    /\ beResponse = NoResponse

BeParked ==
    /\ beEnv = [p \in {"openai", "gemini"} |-> FALSE]
    /\ bePc = "idle"
    /\ beReq = NoRequest
    /\ beRouted = {}
    /\ beSource = "none"
    /\ beFailure = "none"
    /\ beText = <<>>
    /\ beSent = 0
    /\ beEvents = <<>>
    /\ beResponse = NoResponse

\* A chat-completion request arrives.
BeReceive ==
    /\ bePc \in {"idle", "done"}
    /\ beReq' \in [valid : BOOLEAN, model : ModelNames, stream : BOOLEAN]
    /\ bePc' = "route"
    /\ beRouted' = {}
    /\ beSource' = "none"
    /\ beFailure' = "none"
    /\ beText' = <<>>
    /\ beSent' = 0
    /\ beEvents' = <<>>
    /\ beResponse' = NoResponse
    /\ UNCHANGED beEnv
    /\ UNCHANGED exceptBe

\* A request that does not parse or lacks a required field is refused.
BeRefuse ==
    /\ bePc = "route"
    /\ ~beReq.valid
    /\ beResponse' = [status |-> 400, error |-> "Invalid request format"]
    /\ bePc' = "done"
    /\ UNCHANGED <<beEnv, beReq, beRouted, beSource, beFailure, beText, beSent, beEvents>>
    /\ UNCHANGED exceptBe

\* The provider is selected; without its API key the fallback answers.
BeRoute ==
    /\ bePc = "route"
    /\ beReq.valid
    /\ LET provider == DetectProvider(ModelOrDefault(beReq.model))
       IN  /\ beRouted' = beRouted \cup {provider}
           /\ IF beEnv[provider]
              THEN /\ bePc' = "upstream"
                   /\ UNCHANGED <<beSource, beText>>
              ELSE /\ bePc' = "reply"
                   /\ beSource' = "fallback"
                   /\ \E r \in RandomDraws : beText' = Fallback(r)
    /\ UNCHANGED <<beEnv, beReq, beFailure, beSent, beEvents, beResponse>>
    /\ UNCHANGED exceptBe

\* The upstream provider answers.
BeUpstreamAnswers ==
    /\ bePc = "upstream"
    /\ beText' \in UpstreamTexts
    /\ beSource' = "upstream"
    /\ bePc' = "reply"
    /\ UNCHANGED <<beEnv, beReq, beRouted, beFailure, beSent, beEvents, beResponse>>
    /\ UNCHANGED exceptBe

\* The upstream call fails; the fallback answers.
BeUpstreamFails ==
    /\ bePc = "upstream"
    /\ \E f \in UpstreamFailures, r \in RandomDraws :
          /\ beFailure' = f
          /\ beSource' = "fallback"
          /\ beText' = Fallback(r)
    /\ bePc' = "reply"
    /\ UNCHANGED <<beEnv, beReq, beRouted, beSent, beEvents, beResponse>>
    /\ UNCHANGED exceptBe

\* stream = false: the whole message in one JSON response.
BeRespond ==
    /\ bePc = "reply"
    /\ ~beReq.stream
    /\ beResponse' = [status |-> 200, role |-> "assistant", content |-> Join(beText)]
    /\ bePc' = "done"
    /\ UNCHANGED <<beEnv, beReq, beRouted, beSource, beFailure, beText, beSent, beEvents>>
    /\ UNCHANGED exceptBe

\* stream = true: the response opens as a stream of Server-Sent Events.
BeOpenStream ==
    /\ bePc = "reply"
    /\ beReq.stream
    /\ beResponse' = [status |-> 200, contentType |-> "text/event-stream"]
    /\ bePc' = "stream"
    /\ UNCHANGED <<beEnv, beReq, beRouted, beSource, beFailure, beText, beSent, beEvents>>
    /\ UNCHANGED exceptBe

TextDelta(text) == [type |-> "text-delta", textDelta |-> text]
Done == [type |-> "[DONE]", textDelta |-> ""]

\* The events a stream step adds: the next words as one text-delta.
\* (a slip: the terminal event written after every text-delta)
StreamEventsDoneEach(ws) == <<TextDelta(Join(ws)), Done>>
StreamEvents(ws) == <<TextDelta(Join(ws))>>

\* data: {"type":"text-delta","textDelta":...}
BeStreamDelta ==
    /\ bePc = "stream"
    /\ beSent < Len(beText)
    /\ \E k \in 1..MaxChunk :
          /\ beSent + k <= Len(beText)
          /\ beEvents' = beEvents \o StreamEvents(SubSeq(beText, beSent + 1, beSent + k))
          /\ beSent' = beSent + k
    /\ UNCHANGED <<beEnv, bePc, beReq, beRouted, beSource, beFailure, beText, beResponse>>
    /\ UNCHANGED exceptBe

\* data: [DONE]
BeStreamDone ==
    /\ bePc = "stream"
    /\ beSent = Len(beText)
    /\ beEvents' = Append(beEvents, Done)
    /\ bePc' = "done"
    /\ UNCHANGED <<beEnv, beReq, beRouted, beSource, beFailure, beText, beSent, beResponse>>
    /\ UNCHANGED exceptBe

BeNext ==
    \/ BeReceive
    \/ BeRefuse
    \/ BeRoute
    \/ BeUpstreamAnswers
    \/ BeUpstreamFails
    \/ BeRespond
    \/ BeOpenStream
    \/ BeStreamDelta
    \/ BeStreamDone

(***************************************************************************)
(* The App with the conversation sidebar: handleSubmit and the sidebar      *)
(* handlers.  The two copies of this App in the sources have the same       *)
(* script logic.                                                            *)
(***************************************************************************)
\* readings of Date.now() in one behaviour: accepted submits and created
\* conversations together
MaxClock == 2

\* error.value = null
Null == "null"

\* lastOp after a handler other than handleSubmit
OtherOp == [op |-> "other"]

\* What the user types into the textarea.
Inputs == {"", " ", " b "}

\* The draw of Math.random() the App is tried on: the highest.
AppDraws == {RandomGrain - 1}

\* String.trim
RECURSIVE TrimStart(_)
TrimStart(str) ==
    IF Len(str) > 0 /\ SubSeq(str, 1, 1) = " " THEN TrimStart(SubSeq(str, 2, Len(str)))
    ELSE str
RECURSIVE TrimEnd(_)
TrimEnd(str) ==
    IF Len(str) > 0 /\ SubSeq(str, Len(str), Len(str)) = " "
    THEN TrimEnd(SubSeq(str, 1, Len(str) - 1))
    ELSE str
Trim(str) == TrimEnd(TrimStart(str))

modelOptions == <<"gpt-4", "gpt-3.5-turbo", "claude-3">>

\* conversations.findIndex(conv => conv.id === id): 0-based, -1 when absent.
RECURSIVE FindIndexFrom(_, _, _)
FindIndexFrom(convs, id, i) ==
    IF i > Len(convs) THEN -1
    ELSE IF convs[i].id = id THEN i - 1
    ELSE FindIndexFrom(convs, id, i + 1)
findIndex(convs, id) == FindIndexFrom(convs, id, 1)

\* conversations.splice(index, 1), index 0-based
\* (a slip: splice(index), which removes the rest of the list as well)
SpliceRest(convs, index) == SubSeq(convs, 1, index)
Splice(convs, index) ==
    SubSeq(convs, 1, index) \o SubSeq(convs, index + 2, Len(convs))

\* The messages loadConversationMessages shows for a conversation.  The
\* submit field tells which submit a message belongs to (0: a sample message).
SampleMessages(conversationId) ==
    IF conversationId = "1"
    THEN << [role |-> "assistant", content |-> "Hello! I'm Iroh Chat, your AI assistant. How can I help you today?",
             conversationId |-> "1", submit |-> 0] >>
    ELSE IF conversationId = "2"
    THEN << [role |-> "user", content |-> "Can you help me implement this new feature?",
             conversationId |-> "2", submit |-> 0],
            [role |-> "assistant", content |-> "I'd be happy to help you with that feature. Let me break it down into manageable steps and guide you through the implementation process.",
             conversationId |-> "2", submit |-> 0] >>
    ELSE <<>>

\* A Date, told by the write that read the clock: the submit whose handler
\* made it (0: none) and the place of the write.
Stamp(n, place) == [submit |-> n, place |-> place]

conv1 ==
    [id |-> "1", title |-> "Welcome to Iroh Chat",
     lastMessage |-> "Hello! How can I assist you today?",
     timestamp |-> Stamp(0, "now"),
     model |-> "gpt-3.5-turbo", messageCount |-> 2]

conv2 ==
    [id |-> "2", title |-> "Project Discussion",
     lastMessage |-> "Let me help you with that feature.",
     timestamp |-> Stamp(0, "an hour before now"),
     model |-> "gpt-4", messageCount |-> 5]

\* The state once the App is mounted: initializeConversations has run.
AppInit ==
    /\ input = ""
    /\ messages = SampleMessages("1")
    /\ conversations = <<conv1, conv2>>
    /\ currentConversationId = "1"
    /\ status = "idle"
    /\ error = Null
    /\ selectedModel = "gpt-3.5-turbo"
    /\ searchQuery = ""
    /\ newChatDialogOpen = FALSE
    /\ pending = <<>>
    /\ clock = 1
    /\ lastOp = OtherOp

\* v-model="input": the user edits the textarea.  The template passes
\* :disabled="status === 'loading'" to the textarea component, which is not
\* part of these sources; handleSubmit does not rely on it, and neither does
\* this action.
TypeInput ==
    /\ \E text \in Inputs : input' = text
    /\ lastOp' = OtherOp
    /\ UNCHANGED <<messages, conversations, currentConversationId, status, error,
                   selectedModel, searchQuery, newChatDialogOpen, pending, clock>>
    /\ UNCHANGED exceptApp

\* v-model="selectedModel"
SelectModel ==
    /\ \E m \in Range(modelOptions) : selectedModel' = m
    /\ lastOp' = OtherOp
    /\ UNCHANGED <<input, messages, conversations, currentConversationId, status,
                   error, searchQuery, newChatDialogOpen, pending, clock>>
    /\ UNCHANGED exceptApp

\* v-model:open="newChatDialogOpen" of the dialog, and its Cancel button.
SetDialogOpen ==
    /\ \E open \in BOOLEAN : newChatDialogOpen' = open
    /\ lastOp' = OtherOp
    /\ UNCHANGED <<input, messages, conversations, currentConversationId, status,
                   error, selectedModel, searchQuery, pending, clock>>
    /\ UNCHANGED exceptApp

\* if (!input.value.trim() || status.value === 'loading') return
\* (a slip: the status test left out)
SubmitAcceptedWhileLoading(text, st) == Trim(text) # ""
SubmitAccepted(text, st) == ~(Trim(text) = "" \/ st = "loading")

\* handleSubmit up to its await: the user message is shown, the conversation
\* entry updated, and the rest of the call is suspended on the timer.
HandleSubmit ==
    /\ SubmitAccepted(input, status) => clock <= MaxClock
    /\ IF SubmitAccepted(input, status)
       THEN LET userMessage == Trim(input)
                convIndex == findIndex(conversations, currentConversationId)
            IN  /\ input' = ""
                /\ messages' = Append(messages,
                       [role |-> "user", content |-> userMessage,
                        conversationId |-> currentConversationId, submit |-> clock])
                /\ conversations' =
                       IF convIndex > -1
                       THEN [conversations EXCEPT
                               ![convIndex + 1].lastMessage = userMessage,
                               ![convIndex + 1].timestamp = Stamp(clock, "user message"),
                               ![convIndex + 1].messageCount = @ + 1]
                       ELSE conversations
                /\ status' = "loading"
                /\ error' = Null
                /\ pending' = Append(pending,
                       [userMessage |-> userMessage, convIndex |-> convIndex,
                        submit |-> clock, conversationId |-> currentConversationId])
                /\ clock' = clock + 1
                /\ lastOp' = [op |-> "handleSubmit", accepted |-> TRUE, submit |-> clock]
       ELSE /\ lastOp' = [op |-> "handleSubmit", accepted |-> FALSE, submit |-> 0]
            /\ UNCHANGED <<input, messages, conversations, status, error, pending, clock>>
    /\ UNCHANGED <<currentConversationId, selectedModel, searchQuery, newChatDialogOpen>>
    /\ UNCHANGED exceptApp

\* The assignment conversations.value[convIndex].lastMessage = botResponse
\* throws a TypeError when the list has no element at convIndex any more.
TypeErrorMessage == "Cannot set properties of undefined (setting 'lastMessage')"

\* The timer of the oldest suspended handleSubmit fires and the call runs to
\* its end: the reply is shown and the conversation entry at the index taken
\* before the wait is updated; an exception is caught into error and status.
HandleSubmitResume ==
    /\ pending # <<>>
    /\ \E r \in AppDraws :
          LET call == Head(pending)
              botResponse == getBotResponse("AppSidebar", call.userMessage, r)
              throws == call.convIndex > -1 /\ call.convIndex >= Len(conversations)
          IN  /\ messages' = Append(messages,
                     [role |-> "assistant", content |-> botResponse,
                      conversationId |-> currentConversationId, submit |-> call.submit])
              /\ conversations' =
                     IF call.convIndex > -1 /\ ~throws
                     THEN [conversations EXCEPT
                             ![call.convIndex + 1].lastMessage = botResponse,
                             ![call.convIndex + 1].timestamp = Stamp(call.submit, "reply")]
                     ELSE conversations
              /\ status' = IF throws THEN "error" ELSE "idle"
              /\ error' = IF throws THEN TypeErrorMessage ELSE error
              /\ lastOp' = [op |-> "reply", submit |-> call.submit, threw |-> throws,
                            conversationId |-> call.conversationId]
    /\ pending' = Tail(pending)
    /\ UNCHANGED <<input, currentConversationId, selectedModel, searchQuery,
                   newChatDialogOpen, clock>>
    /\ UNCHANGED exceptApp

\* What the user types into the search box of the sidebar.
SearchQueries == {"", "CHAT", "on", " ", "x"}

\* What prompt('Enter new title:', title) returns: null on Cancel, else the text.
PromptAnswers == {Null, "", "  ", " Chat log "}

\* String.toLowerCase, on the letters of the titles and queries of the model.
UpperCase == "ABCDEFGHIJKLMNOPQRSTUVWXYZ"
LowerCase == "abcdefghijklmnopqrstuvwxyz"
LowerChar(c) ==
    IF \E i \in 1..Len(UpperCase) : SubSeq(UpperCase, i, i) = c
    THEN LET i == CHOOSE i \in 1..Len(UpperCase) : SubSeq(UpperCase, i, i) = c
         IN  SubSeq(LowerCase, i, i)
    ELSE c
RECURSIVE toLowerCase(_)
toLowerCase(str) ==
    IF Len(str) = 0 THEN ""
    ELSE LowerChar(SubSeq(str, 1, 1)) \o toLowerCase(SubSeq(str, 2, Len(str)))

\* String.includes
includes(str, part) == Contains(str, part)

\* The titles a conversation of the model can have.
Titles ==
    {"Welcome to Iroh Chat", "Project Discussion", "New Conversation"}
    \cup {Trim(answer) : answer \in PromptAnswers \ {Null}}

\* conv.title.toLowerCase().includes(searchQuery.value.toLowerCase()), worked
\* out once for every title and query of the model.
\* (a slip: the query compared as typed, not in lower case)
TitleMatchesAsTyped ==
    [title \in Titles, query \in SearchQueries |->
        includes(toLowerCase(title), query)]
TitleMatches ==
    [title \in Titles, query \in SearchQueries |->
        includes(toLowerCase(title), toLowerCase(query))]

\* The computed filteredConversations.
filteredConversations(convs, query) ==
    IF query = "" THEN convs
    ELSE SelectSeq(convs, LAMBDA conv : TitleMatches[conv.title, query])

\* The conversations the sidebar lists: v-for over filteredConversations.
Listed == filteredConversations(conversations, searchQuery)

\* The effect of loadConversationMessages(conversationId) on the state s.
loadConversationMessages(s, conversationId) ==
    [s EXCEPT !.currentConversationId = conversationId,
              !.messages = SampleMessages(conversationId),
              !.input = "",
              !.error = Null,
              !.status = "idle"]

\* The effect of createNewConversation() on the state s; newId is
\* Date.now().toString().
\* (a slip: push in place of unshift)
createNewConversationAtEnd(s, newId) ==
    [s EXCEPT !.conversations =
                  @ \o << [id |-> newId, title |-> "New Conversation", lastMessage |-> "",
                           timestamp |-> Stamp(0, "created"),
                           model |-> s.selectedModel, messageCount |-> 0] >>,
              !.currentConversationId = newId,
              !.messages = <<>>,
              !.input = "",
              !.newChatDialogOpen = FALSE]
createNewConversation(s, newId) ==
    [s EXCEPT !.conversations =
                  << [id |-> newId, title |-> "New Conversation", lastMessage |-> "",
                      timestamp |-> Stamp(0, "created"),
                      model |-> s.selectedModel, messageCount |-> 0] >> \o @,
              !.currentConversationId = newId,
              !.messages = <<>>,
              !.input = "",
              !.newChatDialogOpen = FALSE]

\* The effect of deleteConversation(conversationId, event) on the state s.
\* (a slip: the current conversation not replaced when it is the one deleted)
deleteConversationOnly(s, conversationId, newId) ==
    LET index == findIndex(s.conversations, conversationId)
    IN  IF index > -1 THEN [s EXCEPT !.conversations = Splice(@, index)] ELSE s
deleteConversation(s, conversationId, newId) ==
    LET index == findIndex(s.conversations, conversationId)
        spliced == [s EXCEPT !.conversations = Splice(@, index)]
    IN  IF index > -1
        THEN IF conversationId = s.currentConversationId
             THEN IF Len(spliced.conversations) > 0
                  THEN loadConversationMessages(spliced, spliced.conversations[1].id)
                  ELSE createNewConversation(spliced, newId)
             ELSE spliced
        ELSE s

\* The refs the sidebar handlers read and write, as one record.
AppState ==
    [input |-> input, messages |-> messages, conversations |-> conversations,
     currentConversationId |-> currentConversationId, status |-> status,
     error |-> error, selectedModel |-> selectedModel,
     newChatDialogOpen |-> newChatDialogOpen]

\* The refs take the values of the record t.
AppBecomes(t) ==
    /\ input' = t.input
    /\ messages' = t.messages
    /\ conversations' = t.conversations
    /\ currentConversationId' = t.currentConversationId
    /\ status' = t.status
    /\ error' = t.error
    /\ selectedModel' = t.selectedModel
    /\ newChatDialogOpen' = t.newChatDialogOpen

\* Date.now().toString() of a conversation created now
NewId == "t" \o ToString(clock)

\* v-model="searchQuery"
TypeSearch ==
    /\ \E query \in SearchQueries : searchQuery' = query
    /\ lastOp' = OtherOp
    /\ UNCHANGED <<input, messages, conversations, currentConversationId, status,
                   error, selectedModel, newChatDialogOpen, pending, clock>>
    /\ UNCHANGED exceptApp

\* conversations.find(c => c.id === conversationId): 0-based index of the
\* conversation found, -1 when find returns undefined.
find(convs, conversationId) == findIndex(convs, conversationId)

\* The effect of editConversationTitle(conversationId) on the list when the
\* prompt returns newTitle.
editConversationTitle(convs, conversationId, newTitle) ==
    LET index == find(convs, conversationId)
    IN  IF index > -1 /\ newTitle # Null /\ newTitle # "" /\ Trim(newTitle) # ""
        THEN [convs EXCEPT ![index + 1].title = Trim(newTitle)]
        ELSE convs

\* A click on Rename of a listed conversation, and the answer to its prompt.
ClickRename ==
    /\ \E i \in 1..Len(Listed), newTitle \in PromptAnswers :
          /\ conversations' = editConversationTitle(conversations, Listed[i].id, newTitle)
          /\ lastOp' = [op |-> "editConversationTitle", id |-> Listed[i].id]
    /\ UNCHANGED <<input, messages, currentConversationId, status, error,
                   selectedModel, searchQuery, newChatDialogOpen, pending, clock>>
    /\ UNCHANGED exceptApp

\* A click on a listed conversation of the sidebar.
ClickConversation ==
    /\ \E i \in 1..Len(Listed) :
          /\ AppBecomes(loadConversationMessages(AppState, Listed[i].id))
          /\ lastOp' = [op |-> "loadConversationMessages", id |-> Listed[i].id]
    /\ UNCHANGED <<searchQuery, pending, clock>>
    /\ UNCHANGED exceptApp

\* A click on New Chat.
ClickNewConversation ==
    /\ clock <= MaxClock
    /\ AppBecomes(createNewConversation(AppState, NewId))
    /\ clock' = clock + 1
    /\ lastOp' = [op |-> "createNewConversation", id |-> NewId,
                  dialogWasOpen |-> newChatDialogOpen]
    /\ UNCHANGED <<searchQuery, pending>>
    /\ UNCHANGED exceptApp

\* A click on Delete of a listed conversation of the sidebar.
ClickDelete ==
    /\ \E i \in 1..Len(Listed) :
          LET creates == Len(conversations) = 1
                         /\ Listed[i].id = currentConversationId
          IN  /\ creates => clock <= MaxClock
              /\ AppBecomes(deleteConversation(AppState, Listed[i].id, NewId))
              /\ clock' = IF creates THEN clock + 1 ELSE clock
              /\ lastOp' = [op |-> "deleteConversation", id |-> Listed[i].id,
                            created |-> creates]
    /\ UNCHANGED <<searchQuery, pending>>
    /\ UNCHANGED exceptApp

AppNext ==
    \/ TypeInput
    \/ SelectModel
    \/ SetDialogOpen
    \/ HandleSubmit
    \/ HandleSubmitResume
    \/ ClickConversation
    \/ ClickNewConversation
    \/ ClickDelete

\* The conversation operations of the sidebar, with its search box.
SidebarNext ==
    \/ TypeSearch
    \/ ClickRename
    \/ ClickConversation
    \/ ClickNewConversation
    \/ ClickDelete

(***************************************************************************)
(* The App built on useCompletion: handleCursorSubmit and the sidebar       *)
(* handlers.  useCompletion belongs to the @ai-sdk/vue library; the model   *)
(* takes from it that complete sets isLoading and clears error when called, *)
(* and clears isLoading, and sets error on a failure, when the call ends.   *)
(***************************************************************************)
\* calls of complete in one behaviour, and conversations created
MaxPrompts == 2

ucConv1 ==
    [id |-> "1", title |-> "Vue 3 Composition API Guide",
     messages |->
        << [id |-> "msg-1", role |-> "user",
            content |-> "How do Vue composition APIs work and when should I use them?"],
           [id |-> "msg-2", role |-> "assistant",
            content |-> "The Vue Composition API is a powerful feature..."] >>,
     updatedAt |-> Stamp(0, "now"), model |-> "gpt-3.5-turbo"]

ucConv2 ==
    [id |-> "2", title |-> "Frontend Development Discussion",
     messages |->
        << [id |-> "msg-3", role |-> "user",
            content |-> "Can you help me implement this new feature?"],
           [id |-> "msg-4", role |-> "assistant",
            content |-> "I'd be happy to help with that feature..."] >>,
     updatedAt |-> Stamp(0, "an hour before now"), model |-> "gpt-4"]

\* The demo messages initializeConversations shows; the assistant message is
\* told by the heading of its first version.
demoMessages ==
    << [key |-> "msg-1", from |-> "user",
        content |-> "How do Vue composition APIs work and when should I use them?"],
       [key |-> "msg-2", from |-> "assistant",
        content |-> "# Vue Composition API Guide"] >>

\* The PromptInputMessage values a submit carries: its text and the number
\* of its files.
PromptMessages == [text : {"", "Hi"}, files : {0, 1}]

\* How a call of complete ends: with a text, with nothing (null or
\* undefined), or with a failure.
CompletionOutcomes ==
    { [kind |-> "text", text |-> "Hello! How can I help?"],
      [kind |-> "nothing", text |-> ""],
      [kind |-> "failure", text |-> ""] }

\* const status = computed(() => isLoading ? 'loading' : error ? 'error' : 'idle')
ucStatus == IF isLoading THEN "loading" ELSE IF ucError # Null THEN "error" ELSE "idle"

\* getLastMessage(conv)
getLastMessage(conv) ==
    IF Len(conv.messages) = 0 THEN "No messages yet"
    ELSE LET content == conv.messages[Len(conv.messages)].content
         IN  IF Len(content) > 50 THEN SubSeq(content, 1, 50) \o "..." ELSE content

\* getMessageCount(conv)
getMessageCount(conv) == Len(conv.messages)

\* The state once the App is mounted: initializeConversations has run.
UcInit ==
    /\ ucInput = ""
    /\ enhancedMessages = demoMessages
    /\ ucConversations = <<ucConv1, ucConv2>>
    /\ ucCurrentConversationId = "1"
    /\ isLoading = FALSE
    /\ ucError = Null
    /\ completion = ""
    /\ ucCalls = <<>>
    /\ ucClock = 1
    /\ ucLastOp = OtherOp

\* The refs the handlers of this App write, as one record.
UcState ==
    [input |-> ucInput, enhancedMessages |-> enhancedMessages,
     conversations |-> ucConversations,
     currentConversationId |-> ucCurrentConversationId, error |-> ucError]

\* The refs take the values of the record t.
UcBecomes(t) ==
    /\ ucInput' = t.input
    /\ enhancedMessages' = t.enhancedMessages
    /\ ucConversations' = t.conversations
    /\ ucCurrentConversationId' = t.currentConversationId
    /\ ucError' = t.error

\* if (!hasText && !hasAttachments) return
cursorSubmitAccepted(message) == message.text # "" \/ message.files > 0

\* const prompt = message.text || 'File uploaded'
promptOf(message) == IF message.text # "" THEN message.text ELSE "File uploaded"

\* handleCursorSubmit up to its await of complete(prompt): the effect on the
\* refs of the state s; key is Date.now().toString().
\* (a slip: the user message stored in the current conversation as well)
handleCursorSubmitStoring(s, message, key) ==
    LET index == findIndex(s.conversations, s.currentConversationId)
        stored == [id |-> key, role |-> "user", content |-> promptOf(message)]
    IN  [s EXCEPT !.enhancedMessages =
                      Append(@, [key |-> key, from |-> "user",
                                 content |-> promptOf(message)]),
                  !.conversations =
                      IF index > -1
                      THEN [@ EXCEPT ![index + 1].messages = Append(@, stored)]
                      ELSE @]
handleCursorSubmit(s, message, key) ==
    [s EXCEPT !.enhancedMessages =
                  Append(@, [key |-> key, from |-> "user", content |-> promptOf(message)])]

\* Date.now().toString() of a message or conversation made now
UcNewId == "t" \o ToString(ucClock)

\* @submit of the prompt input, or a click on a suggestion card: the user
\* message is shown and complete(prompt) is called; the rest of the handler
\* is suspended on it.
HandleCursorSubmit ==
    /\ \E message \in PromptMessages :
          IF cursorSubmitAccepted(message)
          THEN /\ ucClock <= MaxPrompts
               /\ UcBecomes([handleCursorSubmit(UcState, message, UcNewId)
                               EXCEPT !.error = Null])
               /\ isLoading' = TRUE
               /\ ucCalls' = Append(ucCalls, [prompt |-> promptOf(message),
                                              submit |-> ucClock])
               /\ ucClock' = ucClock + 1
               /\ ucLastOp' = [op |-> "handleCursorSubmit", accepted |-> TRUE]
          ELSE /\ ucLastOp' = [op |-> "handleCursorSubmit", accepted |-> FALSE]
               /\ UNCHANGED <<ucInput, enhancedMessages, ucConversations,
                              ucCurrentConversationId, ucError, isLoading, ucCalls,
                              ucClock>>
    /\ UNCHANGED completion
    /\ UNCHANGED exceptUc

\* A call of complete ends and its handleCursorSubmit runs to its end: a
\* response that holds text is shown as the assistant message.
CompleteSettles ==
    /\ \E i \in 1..Len(ucCalls), outcome \in CompletionOutcomes :
          /\ enhancedMessages' =
                IF outcome.kind = "text"
                THEN Append(enhancedMessages,
                            [key |-> "t" \o ToString(ucCalls[i].submit) \o "+1",
                             from |-> "assistant", content |-> outcome.text])
                ELSE enhancedMessages
          /\ completion' = IF outcome.kind = "text" THEN outcome.text ELSE completion
          /\ ucError' = IF outcome.kind = "failure" THEN "Failed to fetch" ELSE ucError
          /\ ucCalls' = SubSeq(ucCalls, 1, i - 1) \o SubSeq(ucCalls, i + 1, Len(ucCalls))
          /\ ucLastOp' = [op |-> "complete", kind |-> outcome.kind]
    /\ isLoading' = FALSE
    /\ UNCHANGED <<ucInput, ucConversations, ucCurrentConversationId, ucClock>>
    /\ UNCHANGED exceptUc

\* The effect of loadConversationMessages(conversationId) of this App on the
\* state s.  Its last statement, status.value = 'idle', assigns to a computed
\* ref without a setter and changes nothing.
loadConversationMessagesUc(s, conversationId) ==
    [s EXCEPT !.currentConversationId = conversationId,
              !.enhancedMessages = IF conversationId = "1" THEN @ ELSE <<>>,
              !.input = "",
              !.error = Null]

\* The effect of createNewConversation() of this App on the state s; the
\* selected model is the one the App starts with.
createNewConversationUc(s, newId) ==
    [s EXCEPT !.conversations =
                  << [id |-> newId, title |-> "New Conversation", messages |-> <<>>,
                      updatedAt |-> Stamp(0, "created"),
                      model |-> "gpt-3.5-turbo"] >> \o @,
              !.currentConversationId = newId,
              !.enhancedMessages = <<>>,
              !.input = ""]

\* The effect of deleteConversation(conversationId, event) of this App on
\* the state s.
deleteConversationUc(s, conversationId, newId) ==
    LET index == findIndex(s.conversations, conversationId)
        spliced == [s EXCEPT !.conversations = Splice(@, index)]
    IN  IF index > -1
        THEN IF conversationId = s.currentConversationId
             THEN IF Len(spliced.conversations) > 0
                  THEN loadConversationMessagesUc(spliced, spliced.conversations[1].id)
                  ELSE createNewConversationUc(spliced, newId)
             ELSE spliced
        ELSE s

\* A click on a conversation of the sidebar.
UcClickConversation ==
    /\ \E i \in 1..Len(ucConversations) :
          /\ UcBecomes(loadConversationMessagesUc(UcState, ucConversations[i].id))
          /\ ucLastOp' = [op |-> "loadConversationMessages", id |-> ucConversations[i].id]
    /\ UNCHANGED <<isLoading, completion, ucCalls, ucClock>>
    /\ UNCHANGED exceptUc

\* A click on New Chat.
UcClickNewConversation ==
    /\ ucClock <= MaxPrompts
    /\ UcBecomes(createNewConversationUc(UcState, UcNewId))
    /\ ucClock' = ucClock + 1
    /\ ucLastOp' = [op |-> "createNewConversation", id |-> UcNewId]
    /\ UNCHANGED <<isLoading, completion, ucCalls>>
    /\ UNCHANGED exceptUc

\* A click on Delete of a conversation of the sidebar.
UcClickDelete ==
    /\ \E i \in 1..Len(ucConversations) :
          LET creates == Len(ucConversations) = 1
                         /\ ucConversations[i].id = ucCurrentConversationId
          IN  /\ creates => ucClock <= MaxPrompts
              /\ UcBecomes(deleteConversationUc(UcState, ucConversations[i].id, UcNewId))
              /\ ucClock' = IF creates THEN ucClock + 1 ELSE ucClock
              /\ ucLastOp' = [op |-> "deleteConversation", id |-> ucConversations[i].id]
    /\ UNCHANGED <<isLoading, completion, ucCalls>>
    /\ UNCHANGED exceptUc

UcNext ==
    \/ HandleCursorSubmit
    \/ CompleteSettles
    \/ UcClickConversation
    \/ UcClickNewConversation
    \/ UcClickDelete

(***************************************************************************)
(* customFetch.                                                            *)
(***************************************************************************)
\* The first argument: a string, a URL object or a Request object, with the
\* address it names.
FetchInputs ==
    { [type |-> "string", value |-> v] :
        v \in {"/api/chat", "/api/", "/api", "/apis/chat", "api/chat", "",
               "http://localhost:3000/api/chat"} }
    \cup { [type |-> "URL", value |-> "http://localhost:1420/api/chat"],
           [type |-> "Request", value |-> "/api/chat"] }

\* The second argument; "undefined" when it is left out.
FetchInits == { "undefined", "POST with a body" }

\* typeof window !== 'undefined', and window.__TAURI__ when there is a window
FetchEnvs ==
    { [window |-> FALSE, tauri |-> FALSE],
      [window |-> TRUE, tauri |-> FALSE],
      [window |-> TRUE, tauri |-> TRUE] }

\* Where the Tauri path fails, if it does: the dynamic import, the invoke
\* call, decoding the body, or constructing the Response.
FetchFaults == {"none", "import", "invoke", "decode", "response"}

\* The test of customFetch's if statement.
\* (a slip: includes in place of startsWith)
UseTauriIncludes(env, in) ==
    env.window /\ env.tauri /\ in.type = "string" /\ Contains(in.value, "/api/")
UseTauri(env, in) ==
    env.window /\ env.tauri /\ in.type = "string" /\ StartsWith(in.value, "/api/")

FetchCallOf(in, init) == [fn |-> "fetch", input |-> in, init |-> init]
InvokeCall == [fn |-> "invoke", input |-> "local_app_request", init |-> "localRequest"]
ImportCall == [fn |-> "import", input |-> "@tauri-apps/api/core", init |-> "undefined"]

CfInit ==
    /\ cfPc = "idle"
    /\ cfEnv = [window |-> FALSE, tauri |-> FALSE]
    /\ cfInput = [type |-> "string", value |-> ""]
    /\ cfInit = "undefined"
    /\ cfFault = "none"
    /\ cfCalls = <<>>
    /\ cfResult = "none"

\* customFetch(input, init) is called; without the Tauri route it returns
\* fetch(input, init).
CfCall ==
    /\ cfPc \in {"idle", "done"}
    /\ cfEnv' \in FetchEnvs
    /\ cfInput' \in FetchInputs
    /\ cfInit' \in FetchInits
    /\ cfFault' \in FetchFaults
    /\ IF UseTauri(cfEnv', cfInput')
       THEN /\ cfPc' = "import"
            /\ cfCalls' = <<>>
            /\ cfResult' = "none"
       ELSE /\ cfPc' = "done"
            /\ cfCalls' = <<FetchCallOf(cfInput', cfInit')>>
            /\ cfResult' = "result of fetch"
    /\ UNCHANGED exceptCf

\* The catch block: return fetch(input, init).
\* (a slip: the error thrown again in place of the return)
CfFallbackRethrows ==
    /\ cfPc' = "done"
    /\ cfResult' = "rejected with the Tauri error"
CfFallback ==
    /\ cfPc' = "done"
    /\ cfResult' = "result of fetch"

\* await import('@tauri-apps/api/core')
CfImport ==
    /\ cfPc = "import"
    /\ IF cfFault = "import"
       THEN /\ cfCalls' = cfCalls \o <<ImportCall, FetchCallOf(cfInput, cfInit)>>
            /\ CfFallback
       ELSE /\ cfCalls' = Append(cfCalls, ImportCall)
            /\ cfPc' = "invoke"
            /\ UNCHANGED cfResult
    /\ UNCHANGED <<cfEnv, cfInput, cfInit, cfFault>>
    /\ UNCHANGED exceptCf

\* await invoke('local_app_request', { localRequest })
CfInvoke ==
    /\ cfPc = "invoke"
    /\ IF cfFault = "invoke"
       THEN /\ cfCalls' = cfCalls \o <<InvokeCall, FetchCallOf(cfInput, cfInit)>>
            /\ CfFallback
       ELSE /\ cfCalls' = Append(cfCalls, InvokeCall)
            /\ cfPc' = "build"
            /\ UNCHANGED cfResult
    /\ UNCHANGED <<cfEnv, cfInput, cfInit, cfFault>>
    /\ UNCHANGED exceptCf

\* The body is decoded and the Response constructed and returned.
CfBuild ==
    /\ cfPc = "build"
    /\ IF cfFault \in {"decode", "response"}
       THEN /\ cfCalls' = Append(cfCalls, FetchCallOf(cfInput, cfInit))
            /\ CfFallback
       ELSE /\ cfPc' = "done"
            /\ cfResult' = "response of Tauri"
            /\ UNCHANGED cfCalls
    /\ UNCHANGED <<cfEnv, cfInput, cfInit, cfFault>>
    /\ UNCHANGED exceptCf

CfNext == CfCall \/ CfImport \/ CfInvoke \/ CfBuild

(***************************************************************************)
(* Specifications.                                                         *)
(***************************************************************************)
\* The canned reply generators alone.
InitCanned == GenInit /\ PostInit /\ BeParked /\ AppInit /\ CfInit /\ UcInit
SpecCanned == InitCanned /\ [][GenNext]_vars

\* The mock chat handler alone.
InitPost == GenParked /\ PostInit /\ BeParked /\ AppInit /\ CfInit /\ UcInit
SpecPost == InitPost /\ [][PostNext]_vars

\* The chat backend alone; an open stream is written to its end.
InitBackend == GenParked /\ PostInit /\ BeInit /\ AppInit /\ CfInit /\ UcInit
SpecBackend == InitBackend /\ [][BeNext]_vars
LiveSpecBackend == SpecBackend /\ WF_vars(BeStreamDelta) /\ WF_vars(BeStreamDone)

\* The App with the conversation sidebar.
Init == GenParked /\ PostInit /\ BeParked /\ AppInit /\ CfInit /\ UcInit
Next == AppNext
Spec == Init /\ [][Next]_vars

\* The conversation operations of the sidebar: select, create, delete,
\* rename, search.
InitSidebar == GenParked /\ PostInit /\ BeParked /\ AppInit /\ CfInit /\ UcInit
SpecSidebar == InitSidebar /\ [][SidebarNext]_vars

\* The App built on useCompletion.
InitCompletion == GenParked /\ PostInit /\ BeParked /\ AppInit /\ CfInit /\ UcInit
SpecCompletion == InitCompletion /\ [][UcNext]_vars

\* customFetch alone.
InitFetch == GenParked /\ PostInit /\ BeParked /\ AppInit /\ CfInit /\ UcInit
SpecFetch == InitFetch /\ [][CfNext]_vars

(***************************************************************************)
(* Claims about the chat backend.                                          *)
(***************************************************************************)
\* C1: the provider of a chat-completion request is chosen by the prefix of
\* its model name alone: gpt- goes to OpenAI, gemini- to Gemini, every other
\* name to OpenAI; a request is routed to exactly one provider.
C1_RoutedByPrefix ==
    (beReq.valid /\ bePc \in {"upstream", "reply", "stream", "done"}) =>
        LET m == ModelOrDefault(beReq.model)
            gpt == Len(m) >= 4 /\ SubSeq(m, 1, 4) = "gpt-"
            gemini == Len(m) >= 7 /\ SubSeq(m, 1, 7) = "gemini-"
        IN  /\ Cardinality(beRouted) = 1
            /\ gpt => beRouted = {"openai"}
            /\ gemini => beRouted = {"gemini"}
            /\ (~gpt /\ ~gemini) => beRouted = {"openai"}

\* C1 witness: a name that holds "gemini-" but does not start with it has
\* been served by OpenAI.
C1_Witness ==
    /\ bePc = "done"
    /\ beReq.valid
    /\ beReq.model = "my-gemini-pro"
    /\ beRouted = {"openai"}

\* The textDelta values of the events, in order.
RECURSIVE Deltas(_)
Deltas(events) ==
    IF events = <<>> THEN ""
    ELSE (IF Head(events).type = "text-delta" THEN Head(events).textDelta ELSE "")
         \o Deltas(Tail(events))

\* The content the client of a served request has received.
Received ==
    IF beReq.stream THEN Deltas(beEvents) ELSE beResponse.content

\* C2: when the selected provider has no API key, or the upstream call
\* fails, the request still completes with status 200 and an assistant
\* message whose content is one of the canned sentences.
C2_FallbackOnFailure ==
    (beReq.valid /\ bePc \in {"reply", "stream", "done"}
       /\ (beFailure # "none" \/ \E p \in beRouted : ~beEnv[p])) =>
        /\ beSource = "fallback"
        /\ Join(beText) \in Range(responses)
        /\ bePc = "done" =>
              /\ beResponse.status = 200
              /\ Received \in Range(responses)

\* C2 witness: a streaming request whose upstream call timed out has been
\* served to its end.
C2_Witness ==
    /\ bePc = "done"
    /\ beReq.valid
    /\ beReq.stream
    /\ beFailure = "timeout"
    /\ Received = responses[10]

\* The events of a stream: text-delta events, then at most one [DONE], last.
StreamShape ==
    /\ \A i \in 1..Len(beEvents) :
          beEvents[i].type = "[DONE]" => i = Len(beEvents)
    /\ \A i \in 1..Len(beEvents) : beEvents[i].type \in {"text-delta", "[DONE]"}
    /\ (beEvents # <<>> /\ beEvents[Len(beEvents)].type = "[DONE]") =>
          /\ bePc = "done"
          /\ Deltas(beEvents) = Join(beText)
    /\ (bePc = "done" /\ beReq.valid /\ beReq.stream) =>
          /\ beEvents # <<>>
          /\ beEvents[Len(beEvents)].type = "[DONE]"

StreamEnded == beEvents # <<>> /\ beEvents[Len(beEvents)].type = "[DONE]"

\* C4: a streaming chat completion emits text-delta events followed by
\* exactly one terminal [DONE] event; nothing follows [DONE], every stream
\* reaches [DONE], and the textDelta values in order make up the full text.
C4_StreamEndsWithDone ==
    /\ []StreamShape
    /\ [][StreamEnded => (beEvents' = beEvents \/ beEvents' = <<>>)]_vars
    /\ (bePc = "stream") ~> StreamEnded

\* C4 witness: a stream of several text-delta events has ended.
C4_Witness ==
    /\ StreamEnded
    /\ Len(beEvents) >= 3
    /\ beSource = "upstream"

\* C4 witness of the empty text: [DONE] alone.
C4_WitnessEmpty == StreamEnded /\ Len(beEvents) = 1

(***************************************************************************)
(* Claims about the App with the sidebar and about customFetch.            *)
(***************************************************************************)
\* C8: handleSubmit invoked while status is 'loading' has no effect: no
\* message is appended, input, status, error and the conversation list are
\* unchanged and no new reply is scheduled.
C8_SubmitWhileLoadingHasNoEffect ==
    [][(status = "loading" /\ lastOp'.op = "handleSubmit") =>
          UNCHANGED <<input, messages, conversations, currentConversationId,
                      status, error, selectedModel, searchQuery, newChatDialogOpen,
                      pending, clock>>]_vars

\* C8 witness: handleSubmit has returned at its guard while a reply was
\* pending and the textarea held text.
C8_Witness ==
    /\ status = "loading"
    /\ lastOp.op = "handleSubmit"
    /\ ~lastOp.accepted
    /\ Trim(input) # ""
    /\ pending # <<>>

\* The displayed list shows the user message of submit n directly followed by
\* its assistant reply, and no other reply to it.
ReplyFollowsUserMessage(n) ==
    /\ \E i \in 1..(Len(messages) - 1) :
          /\ messages[i].role = "user" /\ messages[i].submit = n
          /\ messages[i + 1].role = "assistant" /\ messages[i + 1].submit = n
    /\ Cardinality({i \in 1..Len(messages) :
                      messages[i].role = "assistant" /\ messages[i].submit = n}) = 1

\* C9 (as claimed): status is idle, loading or error; an accepted submit
\* sets status to loading and clears error; and when its reply arrives,
\* exactly one assistant reply stands after the user message and status is
\* idle again, whatever sidebar actions ran in between.
C9_SubmitFlow ==
    /\ status \in {"idle", "loading", "error"}
    /\ (lastOp.op = "handleSubmit" /\ lastOp.accepted) =>
          status = "loading" /\ error = Null
    /\ lastOp.op = "reply" =>
          status = "idle" /\ ReplyFollowsUserMessage(lastOp.submit)

\* C10: customFetch takes the Tauri route exactly when the Tauri bridge is
\* present, the input is a string and the input starts with '/api/'; in
\* every other case it calls the regular fetch with the same input and init
\* and never invokes Tauri.
C10_TauriRouteOnlyForApiStrings ==
    LET bridge == cfEnv.window /\ cfEnv.tauri
        string == cfInput.type = "string"
        api == string /\ Len(cfInput.value) >= 5 /\ SubSeq(cfInput.value, 1, 5) = "/api/"
        routed == bridge /\ string /\ api
        called(c) == \E i \in 1..Len(cfCalls) : cfCalls[i] = c
    IN  cfPc # "idle" =>
          /\ routed => (cfPc = "import" \/ called(ImportCall))
          /\ (routed /\ cfFault # "import" /\ cfPc \in {"build", "done"}) =>
                called(InvokeCall)
          /\ (routed /\ cfFault = "none" /\ cfPc = "done") =>
                cfCalls = <<ImportCall, InvokeCall>> /\ cfResult = "response of Tauri"
          /\ ~routed =>
                /\ cfPc = "done"
                /\ cfCalls = <<FetchCallOf(cfInput, cfInit)>>
                /\ cfResult = "result of fetch"

\* C10 witness: with the bridge present, an absolute address that holds
\* '/api/' has gone to the regular fetch.
C10_Witness ==
    /\ cfPc = "done"
    /\ cfEnv.tauri
    /\ cfInput = [type |-> "string", value |-> "http://localhost:3000/api/chat"]
    /\ cfInit = "POST with a body"
    /\ cfCalls = <<FetchCallOf(cfInput, cfInit)>>

\* C10 witness of the Tauri route: invoke has answered and its response is
\* returned.
C10_WitnessTauri ==
    /\ cfPc = "done"
    /\ cfInput = [type |-> "string", value |-> "/api/chat"]
    /\ cfResult = "response of Tauri"

(***************************************************************************)
(* Claims about the canned reply generators and the mock handler.          *)
(***************************************************************************)
\* C3: every canned reply generator returns, for every user message and every
\* random draw, a sentence of the one list of ten; the index
\* floor(random * length) is a valid index of the generator's list, and the
\* result is the same whatever the user message is.
C3_CannedReplyFromTheTen ==
    /\ Len(responses) = 10 /\ Cardinality(Range(responses)) = 10
    /\ \A g \in Generators :
          LET i == RandomIndex(genRandom, Len(ResponsesOf(g)))
          IN  i >= 0 /\ i < Len(ResponsesOf(g))
    /\ genResult # "pending" =>
          /\ genResult \in Range(responses)
          /\ \A m \in GenMessages : getBotResponse(genName, m, genRandom) = genResult

\* C3 witness: the single-pane generator has answered on the highest draw.
C3_Witness ==
    /\ genResult # "pending"
    /\ genName = "AppSimple"
    /\ genRandom = RandomGrain - 1
    /\ genMessage = "hello"

\* A body the validation of the chat endpoint must refuse: not JSON, not an
\* object, or an object whose messages is missing or not an array.
InvalidBody(body) ==
    body.kind \in {"malformed", "null", "primitive"} \/ ~IsArray(MessagesOf(body))

\* C5 (as claimed): a request whose body has an invalid format or lacks the
\* messages array is answered with status 400 and no assistant message.
C5_InvalidBodyGets400 ==
    (postPc = "done" /\ InvalidBody(postBody)) =>
        /\ Len(postSent) = 1
        /\ postSent[1].status = 400
        /\ postSent[1].role # "assistant"

\* C6: an exception raised while POST processes a request is answered with
\* 500 'Internal Server Error'; POST never rejects, and a request is answered
\* exactly once, with status 200, 400 or 500.
C6_PostAlwaysAnswers ==
    /\ ~postRejected
    /\ Len(postSent) <= 1
    /\ postPc \in {"json", "timer"} => Len(postSent) = 0 /\ ENABLED (PostJson \/ PostTimer)
    /\ postPc = "done" =>
          /\ Len(postSent) = 1
          /\ postSent[1].status \in {200, 400, 500}
          /\ JsonThrows(postBody) =>
                postSent[1] = TextResponse("Internal Server Error", 500)

\* C6 witness: a body that is not JSON has been answered with 500.
C6_Witness ==
    /\ postPc = "done"
    /\ postBody.kind = "malformed"
    /\ Len(postSent) = 1
    /\ postSent[1].status = 500

\* C7: a request whose body holds a messages array, empty or not, is answered
\* with status 200, content type application/json, role 'assistant' and a
\* content from the canned list, whatever the messages hold.
C7_MessagesArrayGets200 ==
    (postPc = "done" /\ postBody.kind = "object" /\ IsArray(MessagesOf(postBody))) =>
        /\ Len(postSent) = 1
        /\ postSent[1].status = 200
        /\ postSent[1].contentType = "application/json"
        /\ postSent[1].role = "assistant"
        /\ postSent[1].content \in Range(responses)

\* C7 witness: the empty messages array has been answered with 200.
C7_Witness ==
    /\ postPc = "done"
    /\ postBody.kind = "object"
    /\ IsArray(MessagesOf(postBody))
    /\ MessagesOf(postBody).items = <<>>
    /\ Len(postSent) = 1
    /\ postSent[1].status = 200

(***************************************************************************)
(* Claims about the failure path of customFetch.                           *)
(***************************************************************************)
\* C11: when the Tauri route of customFetch fails, at the dynamic import, at
\* invoke, while the body is decoded or while the Response is constructed,
\* customFetch does not reject with that failure: it calls the regular fetch
\* once, last, with the original input and init, and returns its result.
C11_TauriFailureFallsBackToFetch ==
    (cfPc = "done" /\ UseTauri(cfEnv, cfInput) /\ cfFault # "none") =>
        /\ cfResult = "result of fetch"
        /\ cfCalls # <<>>
        /\ cfCalls[Len(cfCalls)] = FetchCallOf(cfInput, cfInit)
        /\ Cardinality({i \in 1..Len(cfCalls) : cfCalls[i].fn = "fetch"}) = 1
        /\ cfFault = "import" => cfCalls = <<ImportCall, FetchCallOf(cfInput, cfInit)>>
        /\ cfFault # "import" =>
              cfCalls = <<ImportCall, InvokeCall, FetchCallOf(cfInput, cfInit)>>

\* C11 witness: the body of the Tauri response could not be decoded and the
\* request, with its init, has gone to the regular fetch.
C11_Witness ==
    /\ cfPc = "done"
    /\ cfFault = "decode"
    /\ cfInit = "POST with a body"
    /\ cfCalls = <<ImportCall, InvokeCall, FetchCallOf(cfInput, cfInit)>>
    /\ cfResult = "result of fetch"

\* C11 witness of the earliest failure: the dynamic import.
C11_WitnessImport ==
    /\ cfPc = "done"
    /\ cfFault = "import"
    /\ cfCalls = <<ImportCall, FetchCallOf(cfInput, cfInit)>>
    /\ cfResult = "result of fetch"

(***************************************************************************)
(* Claims about the conversation list of the App with the sidebar.         *)
(***************************************************************************)
\* The ids of the conversations of a list.
IdsOf(convs) == {convs[i].id : i \in 1..Len(convs)}

\* The list without its elements of the given id.
Without(convs, id) == SelectSeq(convs, LAMBDA conv : conv.id # id)

CurrentIsInList ==
    /\ Len(conversations) >= 1
    /\ currentConversationId \in IdsOf(conversations)

\* C12: after any sequence of select, create, delete and rename following
\* initialization, the conversation list is not empty and
\* currentConversationId is the id of one of its conversations; deleting the
\* current conversation selects the first remaining one, and deleting the
\* only conversation creates a new one and selects it.
C12_CurrentConversationInList ==
    /\ []CurrentIsInList
    /\ [][(lastOp'.op = "deleteConversation" /\ lastOp'.id = currentConversationId) =>
            IF Len(conversations) > 1
            THEN /\ conversations' = Without(conversations, currentConversationId)
                 /\ currentConversationId' = conversations'[1].id
            ELSE /\ Len(conversations') = 1
                 /\ conversations'[1].id \notin IdsOf(conversations)
                 /\ conversations'[1].title = "New Conversation"
                 /\ currentConversationId' = conversations'[1].id]_vars

\* C12 witness: the only conversation left, a renamed one, has been deleted
\* and a new conversation stands in its place, selected.
C12_Witness ==
    /\ lastOp.op = "deleteConversation"
    /\ lastOp.created
    /\ Len(conversations) = 1
    /\ currentConversationId = conversations[1].id
    /\ currentConversationId # lastOp.id

\* C12 witness of the other case: the current conversation was deleted and
\* the first remaining one, renamed before, is selected.
C12_WitnessFirstRemaining ==
    /\ lastOp.op = "deleteConversation"
    /\ ~lastOp.created
    /\ Len(conversations) >= 2
    /\ currentConversationId = conversations[1].id
    /\ conversations[1].title = "Chat log"
    /\ lastOp.id \notin IdsOf(conversations)

\* A conversation as createNewConversation makes it, for the selected model.
IsNewConversation(conv, model) ==
    /\ conv.title = "New Conversation"
    /\ conv.lastMessage = ""
    /\ conv.messageCount = 0
    /\ conv.model = model

\* Ids that are in no list of the model or have left the list.
StaleIds == {"0", "1", "2"} \ IdsOf(conversations)

\* C13: deleteConversation(id) removes the one conversation of that id and
\* keeps the others in their order (after deleting the only conversation the
\* list holds the new conversation made in its place); with an id that is not
\* in the list nothing changes; and when the deleted conversation was not the
\* current one, currentConversationId, the displayed messages, input, status
\* and error stay as they were.
C13_DeleteRemovesOnlyThatConversation ==
    /\ [](\A id \in StaleIds : deleteConversation(AppState, id, NewId) = AppState)
    /\ [][lastOp'.op = "deleteConversation" =>
            LET rest == Without(conversations, lastOp'.id)
            IN  /\ Len(rest) = Len(conversations) - 1
                /\ \/ conversations' = rest
                   \/ /\ lastOp'.created
                      /\ rest = <<>>
                      /\ Len(conversations') = 1
                      /\ conversations'[1].id \notin IdsOf(conversations)
                /\ lastOp'.id # currentConversationId =>
                      /\ conversations' = rest
                      /\ UNCHANGED <<currentConversationId, messages, input, status,
                                     error>>]_vars

\* C13 witness: a conversation other than the current one has been deleted
\* while a reply was pending and the textarea held text.
C13_Witness ==
    /\ lastOp.op = "deleteConversation"
    /\ lastOp.id # currentConversationId
    /\ lastOp.id \notin IdsOf(conversations)
    /\ Len(conversations) >= 2
    /\ status = "loading"
    /\ Trim(input) # ""
    /\ pending # <<>>

\* C14: createNewConversation puts one new conversation at the front of the
\* list, titled 'New Conversation', without messages and with the selected
\* model, makes it current, empties the displayed messages and the input and
\* closes the new-chat dialog; the conversations there were stay unchanged
\* and in order, and status and error are not modified.  The call made by
\* deleteConversation for an emptied list is held to the same.
C14_CreateInsertsAtFront ==
    [][(lastOp'.op = "createNewConversation"
          \/ (lastOp'.op = "deleteConversation" /\ lastOp'.created)) =>
        LET before == IF lastOp'.op = "createNewConversation" THEN conversations
                      ELSE Without(conversations, lastOp'.id)
        IN  /\ Len(conversations') = Len(before) + 1
            /\ IsNewConversation(conversations'[1], selectedModel)
            /\ conversations'[1].id \notin IdsOf(conversations)
            /\ Tail(conversations') = before
            /\ currentConversationId' = conversations'[1].id
            /\ messages' = <<>>
            /\ input' = ""
            /\ newChatDialogOpen' = FALSE
            /\ UNCHANGED <<status, error, selectedModel>>]_vars

\* C14 witness: a conversation was created from the open dialog while a
\* reply was pending, for a model selected in the dialog, in front of the two
\* sample conversations.
C14_Witness ==
    /\ lastOp.op = "createNewConversation"
    /\ lastOp.dialogWasOpen
    /\ ~newChatDialogOpen
    /\ status = "loading"
    /\ Len(conversations) = 3
    /\ conversations[1].model = "claude-3"
    /\ conversations[1].id = currentConversationId
    /\ messages = <<>>

\* C14 witness of the error state: a conversation was created after a reply
\* had failed, and status and error still tell of the failure.
C14_WitnessError ==
    /\ lastOp.op = "createNewConversation"
    /\ status = "error"
    /\ error = TypeErrorMessage

(***************************************************************************)
(* Claims about the App built on useCompletion.                            *)
(***************************************************************************)
\* C15 (as claimed): immediately after loadConversationMessages(id) returns,
\* currentConversationId equals id, input is the empty string, error is null
\* and status is 'idle', also when a completion request is still in flight.
C15_LoadLeavesIdle ==
    ucLastOp.op = "loadConversationMessages" =>
        /\ ucCurrentConversationId = ucLastOp.id
        /\ ucInput = ""
        /\ ucError = Null
        /\ ucStatus = "idle"

\* The same for the App with handleSubmit, whose status is a ref.
LoadLeavesIdleWithRef ==
    lastOp.op = "loadConversationMessages" =>
        /\ currentConversationId = lastOp.id
        /\ input = ""
        /\ error = Null
        /\ status = "idle"

\* The entry of the current conversation in the list of convs, as the
\* sidebar shows it: its last message and its count.
SidebarEntry(convs, id) ==
    LET index == findIndex(convs, id)
    IN  IF index > -1
        THEN [lastMessage |-> getLastMessage(convs[index + 1]),
              count |-> getMessageCount(convs[index + 1])]
        ELSE [lastMessage |-> "none", count |-> 0]

\* C19: handleCursorSubmit, from its call to the end of its completion,
\* changes the displayed message list and what useCompletion owns, and
\* nothing else: the conversation list with every conversation's messages,
\* title, updatedAt and model, currentConversationId and input stay the
\* same, and so do the last message and the count the sidebar shows for the
\* current conversation.
C19_CursorSubmitLeavesConversations ==
    [][ucLastOp'.op \in {"handleCursorSubmit", "complete"} =>
          /\ UNCHANGED <<ucConversations, ucCurrentConversationId, ucInput>>
          /\ SidebarEntry(ucConversations', ucCurrentConversationId')
                = SidebarEntry(ucConversations, ucCurrentConversationId)]_vars

\* C19 witness: two prompts were submitted and answered in the first
\* conversation; four messages more are displayed and the conversation list
\* is the one the App started with.
C19_Witness ==
    /\ ucLastOp.op = "complete"
    /\ ucLastOp.kind = "text"
    /\ ucCalls = <<>>
    /\ Len(enhancedMessages) = Len(demoMessages) + 4
    /\ enhancedMessages[Len(enhancedMessages)].from = "assistant"
    /\ ucCurrentConversationId = "1"
    /\ ucConversations = <<ucConv1, ucConv2>>
    /\ SidebarEntry(ucConversations, "1").count = 2

(***************************************************************************)
(* Claims about the replies of the App with handleSubmit.                  *)
(***************************************************************************)
\* C16 (as claimed): the reply to a submit belongs to the conversation that
\* was current when the submit was accepted: the reply message carries that
\* conversation's id, and the lastMessage and timestamp written after the reply are written to that
\* conversation and to no other, whatever was selected, created or deleted
\* while the reply was pending.
C16_ReplyGoesToSubmitConversation ==
    lastOp.op = "reply" =>
        LET reply == messages[Len(messages)]
        IN  /\ reply.conversationId = lastOp.conversationId
            /\ \A i \in 1..Len(conversations) :
                  conversations[i].timestamp = Stamp(lastOp.submit, "reply")
                     <=> conversations[i].id = lastOp.conversationId
            /\ \A i \in 1..Len(conversations) :
                  conversations[i].id = lastOp.conversationId =>
                     conversations[i].lastMessage = reply.content

\* A reply that arrived after New Chat was clicked: it is marked with the id
\* of the new conversation, and the new conversation, which took the index
\* of the old one, was given its lastMessage and timestamp.
ReplyLandedInNewConversation ==
    /\ lastOp.op = "reply"
    /\ lastOp.conversationId = "1"
    /\ messages[Len(messages)].conversationId # "1"
    /\ conversations[1].id # "1"
    /\ conversations[1].timestamp = Stamp(lastOp.submit, "reply")

\* C17 (as claimed): at most one reply is pending: between the acceptance of
\* a submit and the arrival of its reply no second user message is accepted,
\* whatever is selected, created or deleted in between.
C17_AtMostOnePendingReply == Len(pending) <= 1

\* C18 (as claimed): between event handlers, error is non-null exactly when
\* status is 'error'.
C18_ErrorIffStatusError == (error # Null) <=> (status = "error")

(***************************************************************************)
(* Claims about the search of the sidebar.                                 *)
(***************************************************************************)
\* The title holds the query at some place, letters compared without regard
\* to case; worked out once for every title and query of the model.
HoldsIgnoringCase ==
    [title \in Titles, query \in SearchQueries |->
        \E k \in 0..(Len(title) - Len(query)) :
            \A j \in 1..Len(query) :
                LowerChar(SubSeq(title, k + j, k + j)) = LowerChar(SubSeq(query, j, j))]

\* C20: filteredConversations is the whole conversation list when the search
\* query is empty, and otherwise holds exactly the conversations whose title
\* contains the query ignoring case, in the order of the list; it holds no
\* conversation that is not in the list, and the list is not changed by it.
C20_FilteredConversations ==
    /\ [](\A query \in SearchQueries :
            LET filtered == filteredConversations(conversations, query)
                wanted == {i \in 1..Len(conversations) :
                             query = "" \/ HoldsIgnoringCase[conversations[i].title, query]}
            IN  /\ query = "" => filtered = conversations
                /\ Len(filtered) = Cardinality(wanted)
                /\ \A a \in 1..Len(filtered) :
                      \E i \in wanted : filtered[a] = conversations[i]
                /\ \A a, b \in 1..Len(filtered) :
                      a < b => findIndex(conversations, filtered[a].id)
                                 < findIndex(conversations, filtered[b].id))
    /\ [][searchQuery' # searchQuery => conversations' = conversations]_vars

\* C20 witness: the query is in capitals and the list shows, in the order of
\* the list, the renamed new conversation and the first sample conversation,
\* and not the second.
C20_Witness ==
    /\ searchQuery = "CHAT"
    /\ Len(conversations) = 3
    /\ Len(Listed) = 2
    /\ Listed[1].title = "Chat log"
    /\ Listed[2].title = "Welcome to Iroh Chat"
    /\ lastOp = OtherOp

\* C20 witness of a query that no title holds: nothing is listed.
C20_WitnessNone ==
    /\ searchQuery = "x"
    /\ Listed = <<>>
    /\ Len(conversations) >= 2

====
